---- MODULE Spec2Model ----
(***************************************************************************)
(* Model of the device capture protocol of src/app/pharyngoscopy.tsx:      *)
(* the TCP listener callbacks (initializeTcpSocket), the frame assembler   *)
(* (handleReceivedImageData, findTerminatorIndex), the capture sequence    *)
(* (handleCapture and its settle timer) and the inference hand-off         *)
(* (processCapturedImage).                                                 *)
(*                                                                         *)
(* Byte arrays (Uint8Array) are kept run-length encoded: a sequence of     *)
(* runs [b |-> byte value, n |-> repetitions >= 1] in which neighbouring   *)
(* runs carry different byte values.  The encoding is exact (every byte    *)
(* array has exactly one such form) and lets the size bound of the source, *)
(* IMAGE_WIDTH * IMAGE_HEIGHT * 2 = 204800 bytes, keep its real value.     *)
(***************************************************************************)
EXTENDS Integers, Sequences, FiniteSets, TLC

\* ------------------------------------------------------------ constants
\* const TCP socket / image configuration, pharyngoscopy.tsx lines 30-32
TERMINATOR == <<255, 187>>
IMAGE_WIDTH == 320
IMAGE_HEIGHT == 320
\* newData.slice(8, terminatorIndex): the header length, line 272
HEADER_LEN == 8
\* new Uint8Array([0x01, 0x18]) and new Uint8Array([0x10]), lines 348, 355
resolutionCommand == <<1, 24>>
\* a capture command that carries the resolution selector as well
captureCommandWithSelector == <<16, 24>>
captureCommand == <<16>>

\* ------------------------------------------------------------ bounds
\* Spec follows whole sessions (several connections and capture requests)
\* with a few bursts cut coarsely; CmdSpec follows the capture requests of
\* one connection; AsmSpec follows one connection and one request with every
\* burst of Frames cut finely; ScanSpec calls findTerminatorIndex on its own.
MaxSockets == 2      \* client connections accepted in one run
MaxCaptures == 2     \* presses of the capture button in one run
MaxFrames == 1       \* byte bursts the device sends in one run
MaxTasks == 1        \* handler invocations suspended at an await at one time
CmdSockets == 1      \* the same limits under CmdSpec
CmdCaptures == 2
CmdFrames == 1
CmdTasks == 1
MaxPayload == 2      \* longest short payload the device sends
MaxScanLen == 4      \* longest byte array of ScanSpec
MaxTrail == 1        \* bytes the device sends after a terminator
AsmSockets == 1      \* the same limits under AsmSpec
AsmCaptures == 1
AsmFrames == 2
AsmTasks == 1
MaxStartCalls == 2   \* calls of TcpServer.start()
MaxDataEvents == 2   \* 'data' events the demo stream emits
MaxRecordings == 2   \* calls of startRecording

NULL == 0
\* the handle TcpSocket.createServer(...).listen(...) returns
ServerHandle == 1
SocketIds == 1..(MaxSockets + CmdSockets + AsmSockets)

\* byte values the device uses: header filler, payload filler, terminator
DeviceBytes == [hdr |-> 0, pay |-> 1]
HdrByte == DeviceBytes.hdr
PayByte == DeviceBytes.pay

\* ------------------------------------------------------------ byte arrays
EmptyBytes == <<>>

\* n copies of byte b (the empty array when n = 0)
Run(b, n) == IF n <= 0 THEN <<>> ELSE <<[b |-> b, n |-> n]>>

\* data.length
RECURSIVE ByteLength(_)
ByteLength(d) == IF d = <<>> THEN 0 ELSE Head(d).n + ByteLength(Tail(d))

\* new Uint8Array(a.length + b.length); set(a); set(b, a.length)
Concat(a, b) ==
    IF a = <<>> THEN b
    ELSE IF b = <<>> THEN a
    ELSE IF a[Len(a)].b = b[1].b
         THEN SubSeq(a, 1, Len(a) - 1)
                \o <<[b |-> b[1].b, n |-> a[Len(a)].n + b[1].n]>>
                \o Tail(b)
         ELSE a \o b

\* the first k bytes of d
RECURSIVE Take(_, _)
Take(d, k) ==
    IF k <= 0 \/ d = <<>> THEN <<>>
    ELSE IF Head(d).n <= k
         THEN <<Head(d)>> \o Take(Tail(d), k - Head(d).n)
         ELSE <<[b |-> Head(d).b, n |-> k]>>

\* d without its first k bytes
RECURSIVE Drop(_, _)
Drop(d, k) ==
    IF k <= 0 \/ d = <<>> THEN d
    ELSE IF Head(d).n <= k
         THEN Drop(Tail(d), k - Head(d).n)
         ELSE <<[b |-> Head(d).b, n |-> Head(d).n - k]>> \o Tail(d)

\* Uint8Array.prototype.slice(start, end) for start, end >= 0: the bytes at
\* indices start .. end-1, empty when end <= start
slice(d, start, end) == Drop(Take(d, end), start)

\* The scan of findTerminatorIndex, run by run.  k is the run looked at and
\* off the number of bytes before it.  Inside a run no index but the last
\* has a different byte after it, so the lowest i < data.length - 1 with
\* data[i] = TERMINATOR[0] and data[i + 1] = TERMINATOR[1] is the last index
\* of the first 0xFF run that a 0xBB run follows.
RECURSIVE ScanRuns(_, _, _)
ScanRuns(data, k, off) ==
    IF k >= Len(data) THEN -1
    ELSE IF data[k].b = TERMINATOR[1] /\ data[k + 1].b = TERMINATOR[2]
         THEN off + data[k].n - 1
         ELSE ScanRuns(data, k + 1, off + data[k].n)

findTerminatorIndex(data) == ScanRuns(data, 1, 0)

\* The loop of findTerminatorIndex as written, on a plain sequence of bytes
\* (data[i] of the source is data[i + 1] here):
\*   for (let i = 0; i < data.length - 1; i++)
\*     if (data[i] === TERMINATOR[0] && data[i + 1] === TERMINATOR[1]) return i;
\*   return -1;
\* scanLoopFirstByte is the loop without the test of the second byte.
RECURSIVE scanLoopFirstByte(_, _)
scanLoopFirstByte(data, i) ==
    IF ~(i < Len(data) - 1) THEN -1
    ELSE IF data[i + 1] = TERMINATOR[1] THEN i
    ELSE scanLoopFirstByte(data, i + 1)

RECURSIVE scanLoop(_, _)
scanLoop(data, i) ==
    IF ~(i < Len(data) - 1) THEN -1
    ELSE IF data[i + 1] = TERMINATOR[1] /\ data[i + 2] = TERMINATOR[2] THEN i
    ELSE scanLoop(data, i + 1)

\* the run-length form of a plain sequence of bytes
RECURSIVE Encode(_)
Encode(data) ==
    IF data = <<>> THEN EmptyBytes
    ELSE Concat(Run(Head(data), 1), Encode(Tail(data)))

\* const expectedSize = IMAGE_WIDTH * IMAGE_HEIGHT * 2
expectedSize == IMAGE_WIDTH * IMAGE_HEIGHT * 2


\* ------------------------------------------------------------ state
VARIABLES
    isProcessing,    \* useState(false), line 65
    isConnected,     \* useState(false), line 70
    clientSocket,    \* useState(null), line 72: a socket id or NULL
    receivedData,    \* useState(new Uint8Array()), lines 76-78
    sockets,         \* every client socket: "unused", "open", "errored", "closed"
    timers,          \* pending setTimeout callbacks of handleCapture
    tasks,           \* invocations of handleReceivedImageData suspended at an await
    writes,          \* the calls of clientSocket.write so far, in order
    wire,            \* bytes the device has sent that are not yet delivered
    wireSock,        \* the socket those bytes travel on
    \* history variables (no field of the program): what has happened so far
    captures,        \* capture requests started; the latest has this number
    status,          \* CaptureRequest.status of the latest request
    reqSock,         \* the socket the latest request wrote SetResolution to
    framesSent,      \* bursts the device has sent
    sentFrame,       \* the latest burst, whole
    fed,             \* the bytes of it that 'data' events have delivered
    bytewise,        \* each 'data' event of the latest burst carried one byte
    outcome,         \* first Complete / Corrupt outcome of the latest burst
    afterCorrupt,    \* the burst before the latest had the outcome Corrupt
    alerted,         \* title of the Alert.alert of the latest step, or "none"
    limits,          \* the limits of the run: those of Spec, CmdSpec or AsmSpec
    tcpServer,       \* useState(null), line 71: the server handle or NULL
    server,          \* the listener behind that handle: "listening" or "closed"
    mounted,         \* the screen has not been torn down
    scanData,        \* ScanSpec: the byte array findTerminatorIndex is called with
    scanResult,      \* ScanSpec: <<>>, or <<the index the call returned>>
    \* the TcpServer singleton of services/TcpService
    isRunning,       \* private isRunning = false
    serverIp,        \* private serverIp: "null" or the address
    clients,         \* private clients: any[] = [], its length
    listeners,       \* the eventEmitter: per event the listeners in order of
                     \* registration, each the isRecording its closure holds
    starts,          \* calls of start() suspended at await getIpAddressAsync()
    demoTimeouts,    \* pending setTimeout callbacks of _startDemoDataStream
    ecgIntervals,    \* ecgInterval timers that are not cleared
    \* the state of EcgScreen
    serverStatus,    \* useState({isRunning, address, port, clients})
    isStartingServer,\* useState(false)
    isRecording,     \* useState(false)
    ecgDataPoints,   \* useState([]): the displayed points
    recordedData,    \* recordedDataRef.current: the timestamps of its chunks
    timerRef,        \* timerRef.current is not null
    elapsedTimer,    \* the interval of startRecording is not cleared
    effectStatus,    \* serverStatus.isRunning as the current effect closed over it
    \* history variables of the two
    emitted,         \* the event the latest step emitted, or "none"
    stopped,         \* stop() has been called and start() not since
    startCalls,      \* calls of start() so far
    dataEvents,      \* 'data' events so far; the latest has this timestamp
    recordings       \* calls of startRecording so far

progVars == <<isProcessing, isConnected, clientSocket, receivedData>>
envVars == <<sockets, timers, tasks, writes, wire, wireSock>>
histVars == <<captures, status, reqSock, framesSent, sentFrame, fed, bytewise,
              outcome, afterCorrupt, alerted, limits>>
\* the listener and its owner
ownerVars == <<tcpServer, server, mounted>>
\* the TcpServer singleton, and EcgScreen
serviceVars == <<isRunning, serverIp, clients, listeners, starts, demoTimeouts,
                 ecgIntervals, emitted, stopped, startCalls, dataEvents>>
ecgVars == <<serverStatus, isStartingServer, isRecording, ecgDataPoints,
             recordedData, timerRef, elapsedTimer, effectStatus, recordings>>
\* what no step of a mounted screen with its listener changes
runVars == <<limits, scanData, scanResult, ownerVars, serviceVars, ecgVars>>
\* the capture screen, whole
captureVars == <<progVars, envVars, histVars, scanData, scanResult, ownerVars>>
vars == <<captureVars, serviceVars, ecgVars>>
\* what the steps of a suspended handler leave alone
connVars == <<isConnected, clientSocket, sockets>>
cmdVars == <<timers, writes, captures, reqSock>>
wireVars == <<wire, wireSock, framesSent, sentFrame, fed, bytewise, outcome,
                   afterCorrupt>>

\* The 'data' callback is registered by initializeTcpSocket, which the mount
\* effect (useEffect with [] dependencies) calls once: the
\* handleReceivedImageData it calls is the closure of that render, and the
\* receivedData that closure reads is the state's initial value whatever
\* setReceivedData has stored since.
MountReceivedData == EmptyBytes

\* The cleanup of the same effect is a closure of that render as well: the
\* tcpServer it tests is the state's initial value, null, whatever
\* setTcpServer has stored since.
MountTcpServer == NULL

Incomplete == [kind |-> "Incomplete", payload |-> EmptyBytes]

InFlight == {"ResolutionSent", "CaptureSent", "Receiving"}

SessionLimits == [sockets |-> MaxSockets, captures |-> MaxCaptures,
                  frames |-> MaxFrames, tasks |-> MaxTasks, fine |-> FALSE]
CmdLimits == [sockets |-> CmdSockets, captures |-> CmdCaptures,
              frames |-> CmdFrames, tasks |-> CmdTasks, fine |-> FALSE]
AsmLimits == [sockets |-> AsmSockets, captures |-> AsmCaptures,
              frames |-> AsmFrames, tasks |-> AsmTasks, fine |-> TRUE]

\* the screen after its mount effect has started the listener
Mounted ==
    /\ isProcessing = FALSE
    /\ isConnected = FALSE
    /\ clientSocket = NULL
    /\ receivedData = EmptyBytes
    /\ sockets = [s \in SocketIds |-> "unused"]
    /\ timers = {}
    /\ tasks = {}
    /\ writes = <<>>
    /\ wire = EmptyBytes
    /\ wireSock = NULL
    /\ captures = 0
    /\ status = "Idle"
    /\ reqSock = NULL
    /\ framesSent = 0
    /\ sentFrame = EmptyBytes
    /\ fed = EmptyBytes
    /\ bytewise = TRUE
    /\ outcome = Incomplete
    /\ afterCorrupt = FALSE
    /\ alerted = "none"
    /\ tcpServer = ServerHandle
    /\ server = "listening"
    /\ mounted = TRUE

\* findTerminatorIndex is not looked at on its own
NoScan == scanData = <<>> /\ scanResult = <<>>

\* the events of the TcpServer
Events == {"connection", "data", "disconnection", "error"}

\* new TcpServer(): nothing started, nobody listening
Constructed ==
    /\ isRunning = FALSE
    /\ serverIp = "null"
    /\ clients = 0
    /\ starts = 0
    /\ demoTimeouts = 0
    /\ ecgIntervals = 0
    /\ emitted = "none"
    /\ stopped = FALSE
    /\ startCalls = 0
    /\ dataEvents = 0

\* the initial state of EcgScreen
FirstRender ==
    /\ serverStatus = [isRunning |-> FALSE, clients |-> 0]
    /\ isStartingServer = FALSE
    /\ isRecording = FALSE
    /\ ecgDataPoints = <<>>
    /\ recordedData = <<>>
    /\ timerRef = FALSE
    /\ elapsedTimer = FALSE
    /\ effectStatus = FALSE
    /\ recordings = 0

\* the ECG screen is not shown
NoEcg == Constructed /\ FirstRender /\ listeners = [e \in Events |-> <<>>]

Init == Mounted /\ limits = SessionLimits /\ NoScan /\ NoEcg
CmdInit == Mounted /\ limits = CmdLimits /\ NoScan /\ NoEcg
AsmInit == Mounted /\ limits = AsmLimits /\ NoScan /\ NoEcg

\* ------------------------------------------------------------ listener
\* TcpSocket.createServer(function (socket) { ... }): a device connects
Connection(s) ==
    /\ UNCHANGED runVars
    /\ mounted
    /\ alerted' = "none"
    /\ server = "listening"
    /\ sockets[s] = "unused"
    /\ s <= limits.sockets
    /\ \A r \in SocketIds : r < s => sockets[r] # "unused"
    /\ sockets' = [sockets EXCEPT ![s] = "open"]
    /\ isConnected' = TRUE
    /\ clientSocket' = s
    /\ UNCHANGED <<isProcessing, receivedData, timers, tasks, writes, wire,
                   wireSock, captures, status, reqSock, framesSent, sentFrame, fed,
                   bytewise, outcome,
                   afterCorrupt>>

\* the history of the latest request when socket s fails or closes
StatusAfterLoss(s) ==
    IF status \in InFlight /\ reqSock = s THEN "Failed" ELSE status

\* an error handler that clears the flag and keeps the handle
SocketErrorKeepsHandle(s) ==
    /\ UNCHANGED runVars
    /\ mounted
    /\ alerted' = "none"
    /\ sockets[s] = "open"
    /\ sockets' = [sockets EXCEPT ![s] = "errored"]
    /\ isConnected' = FALSE
    /\ wire' = IF wireSock = s THEN EmptyBytes ELSE wire
    /\ wireSock' = IF wireSock = s THEN NULL ELSE wireSock
    /\ status' = StatusAfterLoss(s)
    /\ UNCHANGED <<isProcessing, receivedData, clientSocket, timers, tasks,
                   writes, captures, reqSock, framesSent, sentFrame, fed,
                   bytewise, outcome, afterCorrupt>>

\* socket.on("error", ...)
SocketError(s) ==
    /\ UNCHANGED runVars
    /\ mounted
    /\ alerted' = "none"
    /\ sockets[s] = "open"
    /\ sockets' = [sockets EXCEPT ![s] = "errored"]
    /\ isConnected' = FALSE
    /\ clientSocket' = NULL
    /\ wire' = IF wireSock = s THEN EmptyBytes ELSE wire
    /\ wireSock' = IF wireSock = s THEN NULL ELSE wireSock
    /\ status' = StatusAfterLoss(s)
    /\ UNCHANGED <<isProcessing, receivedData, timers, tasks, writes,
                   captures, reqSock, framesSent, sentFrame, fed, 
                   bytewise, outcome,
                   afterCorrupt>>

\* socket.on("close", ...)
SocketClose(s) ==
    /\ UNCHANGED runVars
    /\ mounted
    /\ alerted' = "none"
    /\ sockets[s] \in {"open", "errored"}
    /\ sockets' = [sockets EXCEPT ![s] = "closed"]
    /\ isConnected' = FALSE
    /\ clientSocket' = NULL
    /\ wire' = IF wireSock = s THEN EmptyBytes ELSE wire
    /\ wireSock' = IF wireSock = s THEN NULL ELSE wireSock
    /\ status' = StatusAfterLoss(s)
    /\ UNCHANGED <<isProcessing, receivedData, timers, tasks, writes,
                   captures, reqSock, framesSent, sentFrame, fed, 
                   bytewise, outcome,
                   afterCorrupt>>

\* server.on("close", ...): the listener has stopped; it emits 'close' once
\* every connection it accepted has ended
ServerClose ==
    /\ mounted
    /\ server = "listening"
    /\ \A s \in SocketIds : sockets[s] # "open"
    /\ server' = "closed"
    /\ isConnected' = FALSE
    /\ tcpServer' = NULL
    /\ clientSocket' = NULL
    /\ alerted' = "none"
    /\ UNCHANGED <<isProcessing, receivedData, envVars, captures, status,
                   reqSock, framesSent, sentFrame, fed, bytewise, outcome,
                   afterCorrupt, limits, scanData, scanResult, mounted,
                   serviceVars, ecgVars>>

\* the screen is torn down: the cleanup of the mount effect,
\*   if (tcpServer) { tcpServer.close(); }
Unmount ==
    /\ mounted
    /\ mounted' = FALSE
    /\ alerted' = "none"
    /\ server' = IF MountTcpServer # NULL THEN "closed" ELSE server
    /\ sockets' = IF MountTcpServer # NULL
                  THEN [s \in SocketIds |->
                          IF sockets[s] = "open" THEN "closed" ELSE sockets[s]]
                  ELSE sockets
    /\ UNCHANGED <<progVars, timers, tasks, writes, wire, wireSock, captures,
                   status, reqSock, framesSent, sentFrame, fed, bytewise,
                   outcome, afterCorrupt, limits, scanData, scanResult,
                   tcpServer, serviceVars, ecgVars>>

\* ------------------------------------------------------------ capture
\* clientSocket.write(...): the call returns, or throws (the catch of
\* handleCapture); a socket that is no longer open takes no bytes
WriteResults(s) == IF sockets[s] = "open" THEN {"ok", "throw"} ELSE {"throw"}

\* disabled={isProcessing || !isConnected} of the capture button
captureButtonDisabled == isProcessing \/ ~isConnected

\* handleCapture with setIsProcessing(true) moved above its guard
handleCaptureFlagFirst ==
    /\ UNCHANGED runVars
    /\ mounted
    /\ IF ~isConnected \/ clientSocket = NULL
       THEN /\ alerted' = "Connection Error"
            /\ isProcessing' = TRUE
            /\ UNCHANGED <<isConnected, clientSocket, receivedData, envVars,
                           captures, status, reqSock, framesSent, sentFrame,
                           fed, bytewise, outcome, afterCorrupt>>
       ELSE /\ captures < limits.captures
            /\ captures' = captures + 1
            /\ reqSock' = clientSocket
            /\ \E res \in WriteResults(clientSocket) :
                 IF res = "ok"
                 THEN /\ isProcessing' = TRUE
                      /\ writes' = Append(writes, [req |-> captures + 1,
                                                   sock |-> clientSocket,
                                                   bytes |-> resolutionCommand,
                                                   ok |-> TRUE])
                      /\ timers' = timers \cup {[req |-> captures + 1,
                                                 sock |-> clientSocket]}
                      /\ status' = "ResolutionSent"
                      /\ alerted' = "none"
                 ELSE /\ isProcessing' = FALSE
                      /\ writes' = Append(writes, [req |-> captures + 1,
                                                   sock |-> clientSocket,
                                                   bytes |-> resolutionCommand,
                                                   ok |-> FALSE])
                      /\ status' = "Failed"
                      /\ alerted' = "Capture Error"
                      /\ UNCHANGED timers
            /\ UNCHANGED <<isConnected, clientSocket, receivedData, sockets,
                           tasks, wire, wireSock, framesSent, sentFrame, fed,
                           bytewise, outcome, afterCorrupt>>

\* handleCapture, up to the setTimeout it leaves behind
handleCapture ==
    /\ UNCHANGED runVars
    /\ mounted
    /\ IF ~isConnected \/ clientSocket = NULL
       THEN /\ alerted' = "Connection Error"
            /\ UNCHANGED <<progVars, envVars, captures, status, reqSock,
                           framesSent, sentFrame, fed, bytewise, outcome,
                           afterCorrupt>>
       ELSE /\ captures < limits.captures
            /\ captures' = captures + 1
            /\ reqSock' = clientSocket
            /\ \E res \in WriteResults(clientSocket) :
                 IF res = "ok"
                 THEN /\ isProcessing' = TRUE
                      /\ writes' = Append(writes, [req |-> captures + 1,
                                                   sock |-> clientSocket,
                                                   bytes |-> resolutionCommand,
                                                   ok |-> TRUE])
                      /\ timers' = timers \cup {[req |-> captures + 1,
                                                 sock |-> clientSocket]}
                      /\ status' = "ResolutionSent"
                      /\ alerted' = "none"
                 ELSE /\ isProcessing' = FALSE
                      /\ writes' = Append(writes, [req |-> captures + 1,
                                                   sock |-> clientSocket,
                                                   bytes |-> resolutionCommand,
                                                   ok |-> FALSE])
                      /\ status' = "Failed"
                      /\ alerted' = "Capture Error"
                      /\ UNCHANGED timers
            /\ UNCHANGED <<isConnected, clientSocket, receivedData, sockets,
                           tasks, wire, wireSock, framesSent, sentFrame, fed,
                           bytewise, outcome, afterCorrupt>>

\* onPress={handleCapture} of the capture button, which takes no press while
\* it is disabled
PressCapture == ~captureButtonDisabled /\ handleCapture

\* a call of handleCapture while no client is connected (no press of the
\* button makes it: the button is disabled then)
handleCaptureUnconnected == (~isConnected \/ clientSocket = NULL) /\ handleCapture

\* SettleTimer as setInterval would have it: the callback stays scheduled
SettleTimerRepeats(t) ==
    /\ UNCHANGED runVars
    /\ mounted
    /\ alerted' = "none"
    /\ t \in timers
    /\ \E res \in WriteResults(t.sock) :
         /\ writes' = Append(writes, [req |-> t.req, sock |-> t.sock,
                                      bytes |-> captureCommand,
                                      ok |-> (res = "ok")])
         /\ status' = IF status = "ResolutionSent" /\ t.req = captures
                      THEN (IF res = "ok" THEN "CaptureSent" ELSE "Failed")
                      ELSE status
    /\ UNCHANGED <<progVars, sockets, timers, tasks, wire, wireSock, captures,
                   reqSock, framesSent, sentFrame, fed, bytewise, outcome,
                   afterCorrupt>>

\* the callback of setTimeout(..., 500): it writes to the socket that
\* handleCapture held when it ran; nothing catches a throw of this write
SettleTimer(t) ==
    /\ UNCHANGED runVars
    /\ mounted
    /\ alerted' = "none"
    /\ t \in timers
    /\ timers' = timers \ {t}
    /\ \E res \in WriteResults(t.sock) :
         /\ writes' = Append(writes, [req |-> t.req, sock |-> t.sock,
                                      bytes |-> captureCommand,
                                      ok |-> (res = "ok")])
         /\ status' = IF status = "ResolutionSent" /\ t.req = captures
                      THEN (IF res = "ok" THEN "CaptureSent" ELSE "Failed")
                      ELSE status
    /\ UNCHANGED <<progVars, sockets, tasks, wire, wireSock, captures,
                   reqSock, framesSent, sentFrame, fed, bytewise,
                   outcome, afterCorrupt>>

\* ------------------------------------------------------------ device
Terminator == <<[b |-> TERMINATOR[1], n |-> 1], [b |-> TERMINATOR[2], n |-> 1]>>

\* h header bytes, p payload bytes, the terminator if t, x bytes after it
MkFrame(h, p, t, x) ==
    Concat(Concat(Concat(Run(HdrByte, h), Run(PayByte, p)),
                  IF t THEN Terminator ELSE EmptyBytes),
           Run(HdrByte, x))

HdrLens == {HEADER_LEN - 1, HEADER_LEN}

\* a frame whose payload holds the byte pair of the terminator: header, one
\* payload byte, 0xFF 0xBB, one more payload byte, and the real terminator
PrematureFrame ==
    Concat(MkFrame(HEADER_LEN, 1, TRUE, 0), MkFrame(0, 1, TRUE, 0))

\* what the device may send in one burst: terminated frames with a full or a
\* short header, unterminated ones, two bursts around the size bound, and a
\* frame with the terminator's bytes inside its payload
Frames ==
    {MkFrame(h, p, TRUE, x) : h \in HdrLens, p \in 0..MaxPayload, x \in 0..MaxTrail}
      \cup {MkFrame(HEADER_LEN, p, FALSE, 0) : p \in 0..MaxPayload}
      \cup {Run(HdrByte, expectedSize - 1), Run(HdrByte, expectedSize)}
      \cup {PrematureFrame}

\* the bursts of Spec: a frame with header, one payload byte and terminator,
\* an unterminated header, and a burst of the size bound
CoarseFrames ==
    {MkFrame(HEADER_LEN, 1, TRUE, 0), MkFrame(HEADER_LEN, 0, FALSE, 0),
     Run(HdrByte, expectedSize)}

\* the sizes of the next 'data' event when len bytes are still to arrive: a
\* short rest arrives whole or in pieces of 1, 2 or 9 bytes, a long one whole
\* or all but its last byte
CutSizes(len) ==
    IF len > 2 * HEADER_LEN + MaxPayload + MaxTrail
    THEN {len - 1, len}
    ELSE ({1, 2, HEADER_LEN + 1} \cup {len}) \cap (1..len)

\* the cuts of Spec: the rest whole, or a whole burst up to its last two bytes
CoarseCuts(w) ==
    {ByteLength(w)} \cup
    (IF w = sentFrame /\ ByteLength(w) > 2 THEN {ByteLength(w) - 2} ELSE {})

\* the device writes a burst to its end of socket s
DeviceSend(s, f) ==
    /\ UNCHANGED runVars
    /\ mounted
    /\ alerted' = "none"
    /\ sockets[s] = "open"
    /\ wire = EmptyBytes
    /\ framesSent < limits.frames
    /\ f \in (IF limits.fine THEN Frames ELSE CoarseFrames)
    /\ wire' = f
    /\ wireSock' = s
    /\ framesSent' = framesSent + 1
    /\ sentFrame' = f
    /\ fed' = EmptyBytes
    /\ bytewise' = TRUE
    /\ outcome' = Incomplete
    /\ afterCorrupt' = (outcome.kind = "Corrupt")
    /\ UNCHANGED <<progVars, sockets, timers, tasks, writes, captures,
                   status, reqSock>>

\* ------------------------------------------------------------ assembler
\* newData of handleReceivedImageData: the buffer its closure sees, then data
newDataOf(data) == Concat(MountReceivedData, data)

\* const imageData = newData.slice(8, terminatorIndex)
imageDataOf(newData) == slice(newData, HEADER_LEN, findTerminatorIndex(newData))

\* what one invocation of handleReceivedImageData makes of its chunk
FeedOutcome(data) ==
    LET newData == newDataOf(data) IN
    IF findTerminatorIndex(newData) # -1
    THEN [kind |-> "Complete", payload |-> imageDataOf(newData)]
    ELSE IF ByteLength(newData) >= expectedSize
         THEN [kind |-> "Corrupt", payload |-> EmptyBytes]
         ELSE Incomplete

\* the lowest number no suspended handler invocation carries
FreeTaskId == CHOOSE i \in 1..(Cardinality(tasks) + 1) :
                 /\ \A t \in tasks : t.id # i
                 /\ \A j \in 1..(i - 1) : \E t \in tasks : t.id = j

\* socket.on("data", ...) -> handleReceivedImageData(data), up to its first
\* await (FileSystem.writeAsStringAsync) or to its end
handleReceivedImageData(k) ==
    /\ UNCHANGED runVars
    /\ mounted
    /\ alerted' = "none"
    /\ wire # EmptyBytes
    /\ k \in (IF limits.fine THEN CutSizes(ByteLength(wire))
                             ELSE CoarseCuts(wire))
    /\ LET data == Take(wire, k)
           newData == newDataOf(data)
           terminatorIndex == findTerminatorIndex(newData)
           got == FeedOutcome(data)
           arrived == IF status = "CaptureSent" THEN "Receiving" ELSE status
       IN
       /\ wire' = Drop(wire, k)
       /\ wireSock' = IF Drop(wire, k) = EmptyBytes THEN NULL ELSE wireSock
       /\ fed' = Concat(fed, data)
       /\ bytewise' = (bytewise /\ k = 1)
       /\ outcome' = IF outcome = Incomplete THEN got ELSE outcome
       /\ IF terminatorIndex # -1
          THEN /\ Cardinality(tasks) < limits.tasks
               /\ receivedData' = newData
               /\ tasks' = tasks \cup {[id |-> FreeTaskId, pc |-> "write",
                                        imageData |-> imageDataOf(newData)]}
               /\ status' = arrived
               /\ UNCHANGED isProcessing
          ELSE IF ByteLength(newData) >= expectedSize
          THEN /\ receivedData' = EmptyBytes
               /\ isProcessing' = FALSE
               /\ status' = IF arrived \in InFlight THEN "Failed" ELSE arrived
               /\ UNCHANGED <<tasks>>
          ELSE /\ receivedData' = newData
               /\ status' = arrived
               /\ UNCHANGED <<isProcessing, tasks>>
    /\ UNCHANGED <<isConnected, clientSocket, sockets, timers, writes,
                   captures, reqSock, framesSent, sentFrame, afterCorrupt>>

\* the history of the latest request when a handler ends it one way or the other
Ended(how) == IF status \in InFlight THEN how ELSE status

\* handleReceivedImageData after await FileSystem.writeAsStringAsync: on
\* success it resets the buffer and enters processCapturedImage (up to its
\* await readAsStringAsync), on failure its catch runs
FileWritten(t, ok) ==
    /\ UNCHANGED runVars
    /\ mounted
    /\ alerted' = IF ok THEN "none" ELSE "Error"
    /\ t \in tasks /\ t.pc = "write"
    /\ receivedData' = EmptyBytes
    /\ IF ok
       THEN /\ tasks' = (tasks \ {t}) \cup {[t EXCEPT !.pc = "read"]}
            /\ UNCHANGED <<isProcessing, status>>
       ELSE /\ tasks' = tasks \ {t}
            /\ isProcessing' = FALSE
            /\ status' = Ended("Failed")
    /\ UNCHANGED <<connVars, cmdVars, wireVars>>

\* processCapturedImage after await FileSystem.readAsStringAsync: it posts the
\* image to the inference API, or (catch) falls back to a mock result and
\* saves the image with it
FileRead(t, ok) ==
    /\ UNCHANGED runVars
    /\ mounted
    /\ alerted' = "none"
    /\ t \in tasks /\ t.pc = "read"
    /\ tasks' = (tasks \ {t}) \cup
                    {[t EXCEPT !.pc = IF ok THEN "axios" ELSE "mock"]}
    /\ UNCHANGED <<progVars, status, connVars, cmdVars, wireVars>>

\* the answers of the inference API: predictions, a response without any (an
\* empty list, or a body that is not the expected JSON), or a failed call
\* (network error or a status outside 2xx: axios throws)
ApiAnswers == {"predictions", "none", "error"}

\* processCapturedImage after await axios(...): with predictions, or after an
\* error (mock result), it saves the image; with none its finally runs and
\* the handler goes on to delete the temporary file
ApiResponded(t, answer) ==
    /\ UNCHANGED runVars
    /\ mounted
    /\ alerted' = "none"
    /\ t \in tasks /\ t.pc = "axios"
    /\ IF answer = "none"
       THEN /\ tasks' = (tasks \ {t}) \cup {[t EXCEPT !.pc = "delete"]}
            /\ isProcessing' = FALSE
            /\ status' = Ended("FrameComplete")
       ELSE /\ tasks' = (tasks \ {t}) \cup
                           {[t EXCEPT !.pc = IF answer = "error" THEN "mock"
                                                                 ELSE "save"]}
            /\ UNCHANGED <<isProcessing, status>>
    /\ UNCHANGED <<isConnected, clientSocket, receivedData, sockets, cmdVars,
                   wireVars>>

\* processCapturedImage after await saveImageToDevice (which catches its own
\* failures), called with the API's prediction (pc "save", line 420) or with
\* the mock result of the catch (pc "mock", line 443): finally { setIsProcessing(false) }, then the handler goes on to
\* delete the temporary file
ImageSaved(t) ==
    /\ UNCHANGED runVars
    /\ mounted
    /\ alerted' = "none"
    /\ t \in tasks /\ t.pc \in {"save", "mock"}
    /\ tasks' = (tasks \ {t}) \cup {[t EXCEPT !.pc = "delete"]}
    /\ isProcessing' = FALSE
    /\ status' = Ended("FrameComplete")
    /\ UNCHANGED <<isConnected, clientSocket, receivedData, sockets, cmdVars,
                   wireVars>>

\* handleReceivedImageData after await FileSystem.deleteAsync: it returns, or
\* its catch runs
TempDeleted(t, ok) ==
    /\ UNCHANGED runVars
    /\ mounted
    /\ alerted' = IF ok THEN "none" ELSE "Error"
    /\ t \in tasks /\ t.pc = "delete"
    /\ tasks' = tasks \ {t}
    /\ IF ok
       THEN UNCHANGED <<isProcessing, receivedData, status>>
       ELSE /\ receivedData' = EmptyBytes
            /\ isProcessing' = FALSE
            /\ status' = Ended("Failed")
    /\ UNCHANGED <<connVars, cmdVars, wireVars>>

\* ------------------------------------------------------------ specification
\* a handler invocation suspended at an await resumes
Resume ==
    \/ \E t \in tasks, ok \in BOOLEAN : FileWritten(t, ok)
    \/ \E t \in tasks, ok \in BOOLEAN : FileRead(t, ok)
    \/ \E t \in tasks, answer \in ApiAnswers : ApiResponded(t, answer)
    \/ \E t \in tasks : ImageSaved(t)
    \/ \E t \in tasks, ok \in BOOLEAN : TempDeleted(t, ok)

\* a settle timer of handleCapture fires
Settle == \E t \in timers : SettleTimer(t)

\* bytes in flight arrive
Arrive ==
    \E k \in CutSizes(ByteLength(wire)) \cup CoarseCuts(wire) :
        handleReceivedImageData(k)

Next ==
    \/ \E s \in SocketIds : Connection(s)
    \/ \E s \in SocketIds : SocketError(s)
    \/ \E s \in SocketIds : SocketClose(s)
    \/ PressCapture
    \/ Settle
    \/ \E s \in SocketIds, f \in Frames \cup CoarseFrames : DeviceSend(s, f)
    \/ Arrive
    \/ Resume

\* whole sessions, coarse bursts
Spec == Init /\ [][Next]_vars

\* whole sessions up to the teardown of the screen, with the listener's
\* events and with calls of handleCapture that do not come from the button
OwnerNext ==
    \/ \E s \in SocketIds : Connection(s)
    \/ \E s \in SocketIds : SocketError(s)
    \/ \E s \in SocketIds : SocketClose(s)
    \/ ServerClose
    \/ Unmount
    \/ PressCapture
    \/ handleCaptureUnconnected
    \/ Settle
    \/ \E s \in SocketIds, f \in CoarseFrames : DeviceSend(s, f)
    \/ Arrive
    \/ Resume

OwnerSpec == Init /\ [][OwnerNext]_vars

\* the capture requests of one connection
CmdSpec == CmdInit /\ [][Next]_vars

\* one connection and one request, every burst of Frames, fine cuts
AsmSpec == AsmInit /\ [][Next]_vars

\* findTerminatorIndex on its own: the byte arrays of up to MaxScanLen bytes
\* made of a terminator byte or another byte
ScanBytes == {HdrByte, TERMINATOR[1], TERMINATOR[2]}
ScanInputs == UNION {[1..n -> ScanBytes] : n \in 0..MaxScanLen}

ScanInit == Mounted /\ limits = AsmLimits /\ NoEcg
                    /\ scanData \in ScanInputs /\ scanResult = <<>>

\* a call findTerminatorIndex(scanData)
Scan ==
    /\ scanResult = <<>>
    /\ scanResult' = <<scanLoop(scanData, 0)>>
    /\ UNCHANGED <<progVars, envVars, histVars, scanData, ownerVars,
                   serviceVars, ecgVars>>

ScanSpec == ScanInit /\ [][Scan]_vars

\* The JavaScript event loop runs every timer that is due and every settled
\* promise's continuation, and the transport delivers the bytes it holds.
Fairness == WF_vars(Settle) /\ WF_vars(Resume) /\ WF_vars(Arrive)

FairSpec == Init /\ [][Next]_vars /\ Fairness

\* ------------------------------------------------------------ TcpServer
\* MAX_DATA_POINTS of the ECG screen
MAX_DATA_POINTS == 200
\* _generateMockEcgData: "Generate 10 points per frame"
FramePoints == 10
\* Platform.OS === "web" || __DEV__: the build runs the demo stream
DemoBuild == TRUE

\* the ecgData of the 'data' event with timestamp n: its points, each told
\* apart from those of other events by n
ecgData(n) == [i \in 1..FramePoints |-> n]

\* array.slice(-n)
Last(seq, n) ==
    IF Len(seq) <= n THEN seq ELSE SubSeq(seq, Len(seq) - n + 1, Len(seq))

\* seq followed by k copies of more
RECURSIVE Repeated(_, _, _)
Repeated(seq, more, k) ==
    IF k = 0 THEN seq ELSE Repeated(seq \o more, more, k - 1)

\* the listeners of an event whose closure holds isRecording = true
Recording(event) ==
    Cardinality({i \in 1..Len(listeners[event]) : listeners[event][i]})

\* stop()
stop ==
    /\ isRunning' = FALSE
    /\ clients' = 0
    /\ serverIp' = "null"
    /\ stopped' = TRUE

\* start() up to its await: a running server returns its address at once
start ==
    /\ startCalls < MaxStartCalls
    /\ startCalls' = startCalls + 1
    /\ stopped' = FALSE
    /\ starts' = IF isRunning THEN starts ELSE starts + 1

\* start() after await Network.getIpAddressAsync(): the address is stored,
\* the server runs and _startDemoDataStream schedules its timeout; or the
\* await threw and start() returns null
startResumes(ok) ==
    /\ starts > 0
    /\ starts' = starts - 1
    /\ IF ok
       THEN /\ serverIp' = "ip"
            /\ isRunning' = TRUE
            /\ demoTimeouts' = IF DemoBuild THEN demoTimeouts + 1 ELSE demoTimeouts
       ELSE UNCHANGED <<serverIp, isRunning, demoTimeouts>>

\* a caller other than the screen calls start()
CallStart ==
    /\ ~isStartingServer
    /\ start
    /\ emitted' = "none"
    /\ UNCHANGED <<isRunning, serverIp, clients, listeners, demoTimeouts,
                   ecgIntervals, dataEvents>>
    /\ UNCHANGED <<captureVars, ecgVars>>

\* its call goes on after the await
StartSettles(ok) ==
    /\ ~isStartingServer
    /\ startResumes(ok)
    /\ emitted' = "none"
    /\ UNCHANGED <<clients, listeners, ecgIntervals, stopped, startCalls,
                   dataEvents>>
    /\ UNCHANGED <<captureVars, ecgVars>>

\* a caller other than the screen calls stop()
CallStop ==
    /\ stop
    /\ emitted' = "none"
    /\ UNCHANGED <<listeners, starts, demoTimeouts, ecgIntervals, startCalls,
                   dataEvents>>
    /\ UNCHANGED <<captureVars, ecgVars>>

\* the setTimeout callback of _startDemoDataStream: the mock client is
\* pushed, 'connection' is emitted (each listener of the screen adds one to
\* serverStatus.clients) and the interval is set
DemoTimeout ==
    /\ demoTimeouts > 0
    /\ demoTimeouts' = demoTimeouts - 1
    /\ clients' = clients + 1
    /\ emitted' = "connection"
    /\ serverStatus' = [serverStatus EXCEPT
                          !.clients = @ + Len(listeners["connection"])]
    /\ ecgIntervals' = ecgIntervals + 1
    /\ UNCHANGED <<isRunning, serverIp, listeners, starts, stopped, startCalls,
                   dataEvents>>
    /\ UNCHANGED <<isStartingServer, isRecording, ecgDataPoints, recordedData,
                   timerRef, elapsedTimer, effectStatus, recordings>>
    /\ UNCHANGED captureVars

\* a tick of ecgInterval: a stopped server clears it; a running one emits
\* 'data', and each listener of the screen whose isRecording is true adds
\* the points to ecgDataPoints and the chunk to recordedDataRef
EcgIntervalTick ==
    /\ ecgIntervals > 0
    /\ IF ~isRunning
       THEN /\ ecgIntervals' = ecgIntervals - 1
            /\ emitted' = "none"
            /\ UNCHANGED <<dataEvents, ecgDataPoints, recordedData>>
       ELSE /\ dataEvents < MaxDataEvents
            /\ dataEvents' = dataEvents + 1
            /\ emitted' = "data"
            /\ ecgDataPoints' =
                 Last(Repeated(ecgDataPoints, ecgData(dataEvents + 1),
                               Recording("data")),
                      MAX_DATA_POINTS)
            /\ recordedData' =
                 Repeated(recordedData, <<dataEvents + 1>>, Recording("data"))
            /\ UNCHANGED ecgIntervals
    /\ UNCHANGED <<isRunning, serverIp, clients, listeners, starts,
                   demoTimeouts, stopped, startCalls>>
    /\ UNCHANGED <<serverStatus, isStartingServer, isRecording, timerRef,
                   elapsedTimer, effectStatus, recordings>>
    /\ UNCHANGED captureVars

\* the TcpServer under any calls
DemoNext ==
    \/ CallStart
    \/ \E ok \in BOOLEAN : StartSettles(ok)
    \/ CallStop
    \/ DemoTimeout
    \/ EcgIntervalTick

DemoSpec == Init /\ [][DemoNext]_vars

\* ------------------------------------------------------------ EcgScreen
\* the effect of EcgScreen has run for the first render: its four listeners
\* are registered
EcgMounted ==
    /\ Constructed
    /\ FirstRender
    /\ listeners = [e \in Events |-> <<FALSE>>]

EcgInit == Mounted /\ limits = SessionLimits /\ NoScan /\ EcgMounted

\* the effect runs again because isRecording has changed to rec.  The
\* cleanup of the previous run passes new functions to off(), which removes
\* none of the registered ones; it stops the server if the serverStatus of
\* its render was running; it clears the interval timerRef holds.  Then the
\* four listeners of the new render are registered.
EffectReruns(rec, running, ref, ticking, wasStopped) ==
    /\ listeners' = [e \in Events |-> Append(listeners[e], rec)]
    /\ effectStatus' = running
    /\ elapsedTimer' = IF ref THEN FALSE ELSE ticking
    /\ IF effectStatus \/ wasStopped
       THEN stop
       ELSE UNCHANGED <<isRunning, clients, serverIp, stopped>>

\* startServer up to await tcpServer.start()
startServer ==
    /\ ~isStartingServer
    /\ ~serverStatus.isRunning
    /\ isStartingServer' = TRUE
    /\ start
    /\ emitted' = "none"
    /\ UNCHANGED <<isRunning, serverIp, clients, listeners, demoTimeouts,
                   ecgIntervals, dataEvents>>
    /\ UNCHANGED <<serverStatus, isRecording, ecgDataPoints, recordedData,
                   timerRef, elapsedTimer, effectStatus, recordings>>
    /\ UNCHANGED captureVars

\* startServer after the await: with an address the status of the server is
\* stored, without one an alert is shown; finally isStartingServer is reset
startServerResumes(ok) ==
    /\ isStartingServer
    /\ isStartingServer' = FALSE
    /\ emitted' = "none"
    /\ IF starts > 0
       THEN /\ startResumes(ok)
            /\ serverStatus' = IF ok
                               THEN [isRunning |-> TRUE, clients |-> clients]
                               ELSE serverStatus
       ELSE /\ ok
            /\ serverStatus' = IF serverIp # "null"
                               THEN [isRunning |-> isRunning, clients |-> clients]
                               ELSE serverStatus
            /\ UNCHANGED <<starts, serverIp, isRunning, demoTimeouts>>
    /\ UNCHANGED <<clients, listeners, ecgIntervals, stopped, startCalls,
                   dataEvents>>
    /\ UNCHANGED <<isRecording, ecgDataPoints, recordedData, timerRef,
                   elapsedTimer, effectStatus, recordings>>
    /\ UNCHANGED captureVars

\* stopServer: stopRecording() if recording, tcpServer.stop(), the status is
\* reset; the effect runs again if isRecording has changed
stopServer ==
    /\ ~isStartingServer
    /\ serverStatus.isRunning
    /\ serverStatus' = [isRunning |-> FALSE, clients |-> 0]
    /\ isRecording' = FALSE
    /\ emitted' = "none"
    /\ IF isRecording
       THEN /\ timerRef' = FALSE
            /\ EffectReruns(FALSE, FALSE, FALSE, FALSE, TRUE)
       ELSE /\ stop
            /\ UNCHANGED <<timerRef, elapsedTimer, effectStatus, listeners>>
    /\ UNCHANGED <<starts, demoTimeouts, ecgIntervals, startCalls, dataEvents>>
    /\ UNCHANGED <<isStartingServer, ecgDataPoints, recordedData, recordings>>
    /\ UNCHANGED captureVars

\* startRecording, and the effect that runs again for isRecording = true
startRecording ==
    /\ serverStatus.isRunning
    /\ ~isRecording
    /\ recordings < MaxRecordings
    /\ recordings' = recordings + 1
    /\ recordedData' = <<>>
    /\ ecgDataPoints' = <<>>
    /\ isRecording' = TRUE
    /\ timerRef' = TRUE
    /\ emitted' = "none"
    /\ EffectReruns(TRUE, serverStatus.isRunning, TRUE, TRUE, FALSE)
    /\ UNCHANGED <<starts, demoTimeouts, ecgIntervals, startCalls, dataEvents>>
    /\ UNCHANGED <<serverStatus, isStartingServer>>
    /\ UNCHANGED captureVars

\* stopRecording, and the effect that runs again for isRecording = false
stopRecording ==
    /\ serverStatus.isRunning
    /\ isRecording
    /\ isRecording' = FALSE
    /\ timerRef' = FALSE
    /\ emitted' = "none"
    /\ EffectReruns(FALSE, serverStatus.isRunning, FALSE, FALSE, FALSE)
    /\ UNCHANGED <<starts, demoTimeouts, ecgIntervals, startCalls, dataEvents>>
    /\ UNCHANGED <<serverStatus, isStartingServer, ecgDataPoints, recordedData,
                   recordings>>
    /\ UNCHANGED captureVars

\* the ECG screen with the TcpServer it drives
EcgNext ==
    \/ startServer
    \/ \E ok \in BOOLEAN : startServerResumes(ok)
    \/ stopServer
    \/ startRecording
    \/ stopRecording
    \/ DemoTimeout
    \/ EcgIntervalTick

EcgSpec == EcgInit /\ [][EcgNext]_vars

\* ------------------------------------------------------------ claims
\* the bursts that are a valid frame: 8 header bytes, n >= 1 payload bytes,
\* the terminator, and no 0xFF 0xBB pair before it
ValidFrames == {MkFrame(HEADER_LEN, p, TRUE, 0) : p \in 1..MaxPayload}

\* the latest burst has arrived to its last byte, and was the first one
FirstBurstArrived == framesSent = 1 /\ sentFrame # EmptyBytes /\ fed = sentFrame

\* C1: a byte sequence delivered in 'data' events of one byte each ends in
\* the same outcome, with the same payload, as the same sequence delivered
\* in a single 'data' event.
C1_ChunkBoundaryIndependence ==
    (FirstBurstArrived /\ bytewise) => outcome = FeedOutcome(sentFrame)

\* C2: a valid frame, however the transport has cut it into 'data' events,
\* ends Complete, and the image data is exactly its n payload bytes.
C2_ValidFrameCompletes ==
    (FirstBurstArrived /\ sentFrame \in ValidFrames)
        => outcome = [kind |-> "Complete",
                      payload |-> Run(PayByte, ByteLength(sentFrame) - HEADER_LEN - 2)]

\* the write calls of request r, in order
ReqWrites(r) == SelectSeq(writes, LAMBDA w : w.req = r)

\* C3: every request calls write first with SetResolution and then, once its
\* settle timer has fired and on the same socket, with Capture; never Capture
\* first, and each command exactly once.
C3_CommandOrder ==
    \A r \in 1..captures :
        LET a == ReqWrites(r)
            pending == \E t \in timers : t.req = r
        IN  /\ Len(a) >= 1
            /\ a[1].bytes = resolutionCommand
            /\ IF ~a[1].ok THEN Len(a) = 1 /\ ~pending
               ELSE IF pending THEN Len(a) = 1
               ELSE /\ Len(a) = 2
                    /\ a[2].bytes = captureCommand
                    /\ a[2].sock = a[1].sock

\* a request has sent both its commands
C3_Witness ==
    \E r \in 1..captures :
        /\ Len(ReqWrites(r)) = 2
        /\ \A i \in 1..2 : ReqWrites(r)[i].ok

\* C4: the command writes of two requests never interleave: a pending settle
\* timer belongs to the latest request, and in the order of the writes no
\* request's command follows a command of a later request.
C4_NoInterleavedRequests ==
    /\ \A t \in timers : t.req = captures
    /\ \A i, j \in DOMAIN writes : i < j => writes[i].req <= writes[j].req

\* C5: at most one client socket is open at any time.
C5_SingleSession == Cardinality({s \in SocketIds : sockets[s] = "open"}) <= 1

\* socket s, which the latest request wrote to, fails or closes in this step
RequestSocketLost ==
    \E s \in SocketIds : /\ s = reqSock
                         /\ sockets[s] = "open"
                         /\ sockets'[s] \in {"errored", "closed"}

\* C6: when the request's socket closes or errors while the request is
\* Receiving, the request is Failed, the receive buffer is empty and the
\* processing flag is false afterwards.
C6_CloseWhileReceiving ==
    [][(status = "Receiving" /\ RequestSocketLost)
         => (status' = "Failed" /\ receivedData' = EmptyBytes /\ ~isProcessing')]_vars

\* C7: every capture request in flight eventually ends: from ResolutionSent,
\* CaptureSent or Receiving the processing flag eventually becomes false.
C7_EveryCaptureEnds == (status \in InFlight) ~> ~isProcessing

\* C8: once the bytes accumulated without a terminator reach the size bound,
\* the outcome is Corrupt and the receive buffer is empty.
C8_OversizeIsCorrupt ==
    (FirstBurstArrived /\ findTerminatorIndex(fed) = -1
        /\ ByteLength(fed) >= expectedSize)
        => (outcome.kind = "Corrupt" /\ receivedData = EmptyBytes)

\* C9: a terminator at an index below 8 gives Corrupt, and no frame: no
\* handler goes on to write out and forward a payload.
C9_ShortFrameIsCorrupt ==
    (framesSent = 1 /\ findTerminatorIndex(fed) \in 0..(HEADER_LEN - 1))
        => (outcome.kind = "Corrupt" /\ tasks = {})

\* C10: a request that has reached FrameComplete or Failed has left the
\* processing flag false.
C10_TerminalResetsToIdle ==
    status \in {"FrameComplete", "Failed"} => ~isProcessing

\* C11: a capture whose inference call failed gets no diagnosis result: no
\* handler goes from its call of the API to saveImageToDevice with a mock
\* diagnosis (which stores the result and opens it on the screen).
C11_InferenceErrorNoResult ==
    [][\A t \in tasks : t.pc = "axios" =>
          [t EXCEPT !.pc = "mock"] \notin tasks']_vars
\* this step calls write for the latest request, and the call fails
WriteFailed ==
    /\ Len(writes') = Len(writes) + 1
    /\ ~writes'[Len(writes')].ok
    /\ writes'[Len(writes')].req = captures'

\* C12: when the write of SetResolution or of Capture fails, the request is
\* aborted (the processing flag is false afterwards) and the session is left
\* as it was: connected flag and client socket unchanged.
C12_WriteErrorAborts ==
    [][WriteFailed => (/\ ~isProcessing'
                       /\ isConnected' = isConnected
                       /\ clientSocket' = clientSocket)]_vars
\* C13: a Corrupt outcome leaves the buffer empty, the processing flag false
\* and the connected flag and client socket as they were, and a valid frame
\* that follows it on the same socket ends Complete with its exact payload.
C13_CorruptRecovery ==
    /\ [][(outcome.kind # "Corrupt" /\ outcome'.kind = "Corrupt")
             => (/\ receivedData' = EmptyBytes
                 /\ ~isProcessing'
                 /\ isConnected' = isConnected
                 /\ clientSocket' = clientSocket)]_vars
    /\ []((afterCorrupt /\ sentFrame \in ValidFrames /\ fed = sentFrame)
            => outcome = [kind |-> "Complete",
                          payload |-> Run(PayByte, ByteLength(sentFrame)
                                                     - HEADER_LEN - 2)])
\* index i of data starts a terminator: data[i] = 0xFF and data[i+1] = 0xBB
TerminatorAt(data, i) ==
    i + 2 <= Len(data) /\ data[i + 1] = 255 /\ data[i + 2] = 187

\* C14: findTerminatorIndex returns the lowest index that starts a
\* terminator, and -1 exactly when no index does (empty and one-byte arrays
\* and arrays ending in a lone 0xFF among them).
C14_ScannerFindsLowest ==
    scanResult # <<>> =>
        LET r == scanResult[1]
            found == {i \in 0..(Len(scanData) - 1) : TerminatorAt(scanData, i)}
        IN  IF found = {} THEN r = -1
            ELSE r \in found /\ \A j \in found : r <= j

\* a call has found a terminator that does not start the array, in an array
\* with a 0xFF before it
C14_Witness ==
    /\ scanResult # <<>>
    /\ scanResult[1] >= 1
    /\ \E j \in 1..scanResult[1] : scanData[j] = 255

\* the scan of the run-length form, which the assembler above uses, returns
\* what the loop returns
ScanRunsIsTheLoop ==
    findTerminatorIndex(Encode(scanData)) = scanLoop(scanData, 0)
\* C15: every write to the device socket is one of the two commands,
\* byte for byte: the first write of a request is SetResolution, the two bytes
\* 0x01 0x18, and any other write is Capture, the one byte 0x10.
C15_CommandEncoding ==
    \A i \in DOMAIN writes :
        LET first == \A j \in 1..(i - 1) : writes[j].req # writes[i].req
        IN  writes[i].bytes = IF first THEN <<1, 24>> ELSE <<16>>

\* both commands have been written, and the device took them
C15_Witness ==
    \E i, j \in DOMAIN writes :
        /\ i < j
        /\ writes[i].ok /\ writes[i].bytes = <<1, 24>>
        /\ writes[j].ok /\ writes[j].bytes = <<16>>
\* C16: chunks are handled one after the other: when a 'data' event starts
\* handleReceivedImageData, no earlier invocation is still suspended at an
\* await.
C16_ChunksHandledOneByOne == [][Arrive => tasks = {}]_vars
\* the chunks delivered so far end with 0xFF, with at least 8 bytes before it
\* and no terminator among them, and the next chunk begins with 0xBB
StraddlePending ==
    /\ framesSent = 1
    /\ fed # EmptyBytes /\ wire # EmptyBytes
    /\ fed[Len(fed)].b = 255 /\ wire[1].b = 187
    /\ ByteLength(fed) >= HEADER_LEN + 1
    /\ findTerminatorIndex(fed) = -1

\* C17: a terminator that straddles two chunks is found: the feed of the
\* chunk that begins with 0xBB completes the frame, with the payload that
\* lies between the header and the 0xFF that ended the chunk before.
C17_StraddlingTerminator ==
    [][(StraddlePending /\ Arrive)
         => (/\ outcome'.kind = "Complete"
             /\ outcome'.payload = slice(fed', HEADER_LEN, ByteLength(fed) - 1))]_vars
\* the chunk the 'data' event of this step delivers
ChunkOfStep == Take(wire, ByteLength(wire) - ByteLength(wire'))

\* C18: a feed after which the buffer, the previous buffer followed by the
\* chunk, holds no terminator and is below the size bound leaves exactly
\* that in the receive buffer, and changes neither the processing flag nor
\* the connection.
C18_IncompleteAppends ==
    [][(/\ Arrive
        /\ findTerminatorIndex(Concat(receivedData, ChunkOfStep)) = -1
        /\ ByteLength(Concat(receivedData, ChunkOfStep)) < expectedSize)
         => (/\ receivedData' = Concat(receivedData, ChunkOfStep)
             /\ isProcessing' = isProcessing
             /\ isConnected' = isConnected
             /\ clientSocket' = clientSocket)]_vars
\* this step's feed is the first of the first burst to end Complete, and the
\* bytes delivered so far hold their terminator at an index i >= 8
CompletesAtOrAfterHeader ==
    /\ Arrive
    /\ framesSent = 1
    /\ outcome = Incomplete /\ outcome'.kind = "Complete"
    /\ findTerminatorIndex(fed') >= HEADER_LEN

\* C19: on Complete with the terminator at index i >= 8 the payload is the
\* bytes 8 .. i-1 of the buffer, without the terminator and without what
\* followed it, and the handler leaves the receive buffer empty once its
\* file write is over.
C19_CompletePayloadAndReset ==
    [][/\ CompletesAtOrAfterHeader
           => outcome'.payload = slice(fed', HEADER_LEN, findTerminatorIndex(fed'))
       /\ (\E t \in tasks : t.pc = "write" /\ t \notin tasks')
           => receivedData' = EmptyBytes]_vars
\* C20: no completed frame has an empty payload: when the bytes delivered
\* hold the terminator at index 8, right after the header, the outcome is
\* Corrupt and no handler goes on to forward an image of zero bytes.
C20_NoEmptyPayload ==
    (framesSent = 1 /\ findTerminatorIndex(fed) = HEADER_LEN)
        => (/\ outcome.kind = "Corrupt"
            /\ \A t \in tasks : t.imageData # EmptyBytes)
\* C21: when the bytes 0xFF 0xBB occur inside the payload, the frame ends at
\* their first occurrence: the outcome is Complete, and the payload is the
\* bytes from index 8 up to that occurrence.
C21_PrematureBoundary ==
    (/\ framesSent = 1 /\ sentFrame = PrematureFrame
     /\ findTerminatorIndex(fed) # -1)
        => outcome = [kind |-> "Complete",
                      payload |-> slice(sentFrame, HEADER_LEN,
                                        findTerminatorIndex(sentFrame))]
\* C22: when the request's socket closes or errors between the write of
\* SetResolution and the settle timer, the request is aborted: its timer is
\* gone, so no Capture follows on any socket, the receive buffer is empty and
\* the request has ended (Failed, processing flag false).
C22_CloseBeforeTimerAborts ==
    [][(status = "ResolutionSent" /\ RequestSocketLost)
         => (/\ \A t \in timers' : t.req # captures
             /\ receivedData' = EmptyBytes
             /\ status' = "Failed"
             /\ ~isProcessing')]_vars
\* handler invocation t, at position from, stays there in this step or moves
\* on to position to
StaysOrMoves(t, from, to) ==
    t.pc = from => (t \in tasks' \/ [t EXCEPT !.pc = to] \in tasks')

\* C23: every completed frame is forwarded to the inference API, once: the
\* handler that completed it goes from its file write to the file read and
\* from there to the POST, never past it; and the image it posts is the
\* payload of the frame, the bytes from index 8 up to the terminator.
C23_ForwardedOnce ==
    /\ [][\A t \in tasks : /\ StaysOrMoves(t, "write", "read")
                            /\ StaysOrMoves(t, "read", "axios")]_vars
    /\ []((framesSent = 1 /\ findTerminatorIndex(sentFrame) >= HEADER_LEN)
            => \A t \in tasks :
                 t.pc = "axios" =>
                    t.imageData = slice(sentFrame, HEADER_LEN,
                                        findTerminatorIndex(sentFrame)))
\* C24: no request fails silently: the step that makes it Failed raises an
\* alert that names the failure.
C24_FailureSurfaced ==
    [][(status # "Failed" /\ status' = "Failed") => alerted' # "none"]_vars
\* C27: a call of handleCapture while no client is connected (connected flag
\* false or no client socket) writes to no socket, schedules no settle timer
\* and leaves the processing flag and the receive buffer as they were.
C27_CaptureWithoutClient ==
    [][((~isConnected \/ clientSocket = NULL) /\ handleCapture)
         => (/\ writes' = writes
             /\ timers' = timers
             /\ isProcessing' = isProcessing
             /\ receivedData' = receivedData)]_vars

\* handleCapture has been called without a client, after a capture that was
\* still in progress when its client went away
C27_Witness ==
    /\ alerted = "Connection Error"
    /\ ~isConnected /\ clientSocket = NULL
    /\ isProcessing /\ writes # <<>>

\* C25: once the screen that owns the listener is torn down, the listener is
\* closed and no socket it accepted is still open.
C25_TeardownCloses ==
    ~mounted => (/\ server = "closed"
                 /\ \A s \in SocketIds : sockets[s] # "open")

\* C26: the connected flag is true exactly when the client socket handle is
\* set, whatever connect, error, close and listener-close events have been
\* handled; and the error handler and the close handler of a socket both
\* leave the flag false and the handle null and touch nothing else of the
\* screen's state, so handling one after the other changes nothing more.
C26_FlagAgreesWithHandle ==
    /\ [](isConnected <=> clientSocket # NULL)
    /\ [][\A s \in SocketIds :
            (SocketError(s) \/ SocketClose(s))
              => (/\ ~isConnected' /\ clientSocket' = NULL
                  /\ UNCHANGED <<isProcessing, receivedData, tcpServer>>)]_vars
    /\ [][\A s \in SocketIds :
            (sockets[s] = "errored" /\ ~isConnected /\ clientSocket = NULL
               /\ SocketClose(s))
              => UNCHANGED progVars]_vars

\* C26 witness: one socket has erred and then closed, another has erred,
\* and the listener has closed after them.
C26_Witness ==
    /\ sockets[1] = "closed" /\ sockets[2] = "errored"
    /\ server = "closed" /\ tcpServer = NULL
    /\ ~isConnected /\ clientSocket = NULL

\* C28: a frame is handed on (a task for it is started) only by a step taken
\* while a capture request is in flight.
C28_InferenceOnlyInFlight ==
    [][Cardinality(tasks') > Cardinality(tasks) => status \in InFlight]_vars

\* C29: of the mock TcpServer at most one demo data stream (a pending
\* timeout or a live interval) is active, and between a call of stop() and
\* the next call of start() no step emits 'connection' or 'data'.
C29_SingleDemoStream ==
    /\ demoTimeouts + ecgIntervals <= 1
    /\ stopped => emitted = "none"

\* C30: on the ECG screen no event has more than the one listener the
\* effect registered, a step taken while recording is off adds nothing to
\* the displayed points or the recorded chunks, and no 'data' event is
\* recorded twice.
C30_AppendOnlyWhileRecording ==
    /\ [](\A e \in Events : Len(listeners[e]) <= 1)
    /\ [][(~isRecording /\ ~isRecording')
            => UNCHANGED <<ecgDataPoints, recordedData>>]_vars
    /\ [](\A i, j \in 1..Len(recordedData) :
            recordedData[i] = recordedData[j] => i = j)


============================================================================
